---------------------------- MODULE Spec2Model ----------------------------
(***************************************************************************)
(* Model of graph-based/11-visualize-graph.py: read_conllu_file,           *)
(* build_dependency_graph, visualize_graph and main.                       *)
(*                                                                         *)
(* A token is a record [id, form, upos, head, deprel].  The graph is the   *)
(* networkx DiGraph the code builds: a node set, the 'label' attribute of  *)
(* the nodes that have one, and the 'label' attribute of every edge        *)
(* (keyed by the ordered pair <<u, v>>).                                   *)
(***************************************************************************)
EXTENDS Integers, Sequences, FiniteSets, TLC

VARIABLES
    pc,        \* position of the run: the last step of main that completed
    file,      \* the CoNLL-U file at conllu_path: [exists, sentences]
    sentence,  \* main's local 'sentence' (the token list read_conllu_file returned)
    G,         \* main's local 'graph' (the DiGraph build_dependency_graph returned)
    dir,       \* output_dir on disk: "absent", "existing" (before the run) or "created"
    image,     \* the file at output_path: "absent", "old", "partial" or "new"
    shown,     \* whether plt.show() displayed the figure
    log,       \* the records written through logger, in order
    exc,       \* the exception that propagated out of main, or "none"
    failedAt,  \* the step that raised, or "none"
    pos,       \* the layout: node -> "finite" | "nonfinite"
    drawn,     \* what has been drawn on the figure
    trace      \* the steps that completed, in order

vars == <<pc, file, sentence, G, dir, image, shown, log, exc, failedAt, pos, drawn, trace>>

---------------------------------------------------------------------------
(* Bounds of the model. *)

\* longest sentence (number of tokens) drawn for build_dependency_graph
MaxLen == 2

\* token ids and head ids are drawn from 1..MaxId
MaxId == 3

---------------------------------------------------------------------------
(* Tokens. *)

\* the root sentinel tested by `head != 0`
Root == 0

\* token['head'] is None (the HEAD column is "_")
None == -1

\* the token has no 'head' key (a line with fewer columns): token['head'] raises KeyError
Missing == -2

Ids == 1..MaxId

Heads == {Missing, None, Root} \cup Ids

\* form / upos / deprel of the words the sentences are made of
Words ==
    { [form |-> "Dogs", upos |-> "NOUN", deprel |-> "nsubj"],
      [form |-> "run",  upos |-> "VERB", deprel |-> "root"] }

Tokens ==
    { [id |-> i, form |-> w.form, upos |-> w.upos, head |-> h, deprel |-> w.deprel] :
        i \in Ids, h \in Heads, w \in Words }

Sentences == UNION { [1..n -> Tokens] : n \in 0..MaxLen }

Tok(i, f, u, h, d) == [id |-> i, form |-> f, upos |-> u, head |-> h, deprel |-> d]

---------------------------------------------------------------------------
(* The DiGraph and build_dependency_graph. *)

\* a function with an empty domain (an empty attribute mapping)
NoEntries == [x \in {} |-> x]

\* mutant of EdgeKey: the key nx.Graph() gives an edge, u - v and v - u being one edge
UndirectedKey(u, v) == IF u <= v THEN <<u, v>> ELSE <<v, u>>

\* the key nx.DiGraph() gives the edge u -> v: the ordered pair
EdgeKey(u, v) == <<u, v>>

\* nx.DiGraph()
EmptyGraph == [nodes |-> {}, label |-> NoEntries, edges |-> NoEntries]

\* f"{word}/{pos}"
NodeLabel(word, upos) == word \o "/" \o upos

\* G.add_node(n, label=lab): n joins the nodes, its 'label' is set (or overwritten)
AddNode(g, n, lab) ==
    [g EXCEPT !.nodes = @ \cup {n},
              !.label = (n :> lab) @@ @]

\* mutant of AddEdge: the edge recorded from the dependent to its head
AddEdgeReversed(g, u, v, lab) ==
    [g EXCEPT !.nodes = @ \cup {u, v},
              !.edges = (<<v, u>> :> lab) @@ @]

\* G.add_edge(u, v, label=lab): u and v join the nodes when they are not yet there
\* (without attributes), the edge u -> v is set (or its 'label' overwritten)
AddEdge(g, u, v, lab) ==
    [g EXCEPT !.nodes = @ \cup {u, v},
              !.edges = (EdgeKey(u, v) :> lab) @@ @]

\* mutant of HasGovernor: the root sentinel is not tested
HasGovernorRootForgotten(head) == head # None

\* `head is not None and head != 0`
HasGovernor(head) == head # None /\ head # Root

\* the body of the loop for one token
AddToken(g, t) ==
    LET g1 == AddNode(g, t.id, NodeLabel(t.form, t.upos))
    IN  IF HasGovernor(t.head) THEN AddEdge(g1, t.head, t.id, t.deprel) ELSE g1

\* the loop `for token in sentence`, from token i on; token['head'] raises
\* KeyError for a token without that key, and the exception leaves the function
RECURSIVE BuildFrom(_, _, _)
BuildFrom(g, s, i) ==
    IF i > Len(s) THEN [raised |-> "none", graph |-> g]
    ELSE IF s[i].head = Missing THEN [raised |-> "KeyError", graph |-> EmptyGraph]
    ELSE BuildFrom(AddToken(g, s[i]), s, i + 1)

build_dependency_graph(s) == BuildFrom(EmptyGraph, s, 1)

---------------------------------------------------------------------------
(* The run of main: its files, its steps and its log. *)

\* sentences the files at conllu_path hold beside the short ones: the empty
\* sentence (a block of comment lines), a root with its dependent, a head that
\* is no token of the sentence, two roots, a cycle, a token line without HEAD
Corpus ==
    { << >>,
      << Tok(1, "Dogs", "NOUN", 2, "nsubj"), Tok(2, "run", "VERB", Root, "root") >>,
      << Tok(1, "Dogs", "NOUN", MaxId, "nsubj"), Tok(2, "run", "VERB", None, "root") >>,
      << Tok(1, "Dogs", "NOUN", Root, "nsubj"), Tok(2, "run", "VERB", Root, "root") >>,
      << Tok(1, "Dogs", "NOUN", 2, "nsubj"), Tok(2, "run", "VERB", 1, "root") >>,
      << Tok(1, "Dogs", "NOUN", Root, "nsubj"), Tok(2, "run", "VERB", Missing, "root") >> }

FileSentences == Corpus \cup { s \in Sentences : Len(s) <= 1 }

\* the file at conllu_path: absent, without any sentence, or holding sentences
\* (read_conllu_file returns the first one only)
Files ==
    { [exists |-> FALSE, sentences |-> << >>], [exists |-> TRUE, sentences |-> << >>] }
        \cup { [exists |-> TRUE, sentences |-> <<s>>] : s \in FileSentences }

NoDrawing == [nodes |-> {}, edges |-> {}, labels |-> NoEntries, edge_labels |-> NoEntries]

\* the steps of main in program order
StepOrder ==
    << "load", "build", "makedirs", "layout", "nodes", "edges", "labels",
       "edge_labels", "save", "show" >>

\* the state main starts in: nothing read, built, drawn or logged yet; the
\* output directory and an earlier image may or may not exist
Init ==
    /\ pc = "main"
    /\ file \in Files
    /\ sentence = << >>
    /\ G = EmptyGraph
    /\ \E d \in {"absent", "existing"} :
         /\ dir = d
         /\ image \in (IF d = "existing" THEN {"absent", "old"} ELSE {"absent"})
    /\ shown = FALSE
    /\ log = << >>
    /\ exc = "none"
    /\ failedAt = "none"
    /\ pos = NoEntries
    /\ drawn = NoDrawing
    /\ trace = << >>

\* an exception leaves main from step `step`
Raise(step, e) ==
    /\ pc' = "raised"
    /\ exc' = e
    /\ failedAt' = step

\* step `step` completed
Completed(step) ==
    /\ pc' = step
    /\ trace' = Append(trace, step)
    /\ UNCHANGED <<exc, failedAt>>

\* read_conllu_file(conllu_path), called from main
read_conllu_file ==
    /\ pc = "main"
    /\ \/ /\ ~file.exists
          /\ log' = Append(log, "ERROR Error reading CoNLL-U file")
          /\ Raise("load", "FileNotFoundError")
          /\ UNCHANGED <<sentence, trace>>
       \/ /\ file.exists
          /\ file.sentences = << >>
          /\ log' = Append(log, "ERROR Error reading CoNLL-U file")
          /\ Raise("load", "ValueError")
          /\ UNCHANGED <<sentence, trace>>
       \/ /\ file.exists
          /\ file.sentences # << >>
          /\ log' = Append(log, "INFO Parsed CoNLL-U file")
          /\ sentence' = file.sentences[1]
          /\ Completed("load")
    /\ UNCHANGED <<file, G, dir, image, shown, pos, drawn>>

\* graph = build_dependency_graph(sentence), called from main (no try/except
\* in the function or around the call)
BuildDependencyGraph ==
    /\ pc = "load"
    /\ LET r == build_dependency_graph(sentence) IN
         \/ /\ r.raised = "none"
            /\ G' = r.graph
            /\ Completed("build")
         \/ /\ r.raised # "none"
            /\ Raise("build", r.raised)
            /\ UNCHANGED <<G, trace>>
    /\ UNCHANGED <<file, sentence, dir, image, shown, log, pos, drawn>>

---------------------------------------------------------------------------
(* visualize_graph(graph, sent_id, output_dir), called from main.  Every    *)
(* call of it stands inside `try:`; `except Exception` logs and re-raises.  *)

\* logger.error(f"Error visualizing graph: ..."); raise
VisualizeRaise(step, e) ==
    /\ log' = Append(log, "ERROR Error visualizing graph")
    /\ Raise(step, e)
    /\ UNCHANGED trace

\* mutant of MakeDirs: the directory is not created
MakeDirsSkipped(d) == d

\* os.makedirs(output_dir, exist_ok=True)
MakeDirs(d) == IF d = "absent" THEN "created" ELSE d

\* nx.spring_layout(G, k=0.5, iterations=50): a coordinate pair for every node
\* of G; the code does not look at the values, which are floats (all finite, or
\* one node's not)
Layouts(g) ==
    { [n \in g.nodes |-> "finite"] }
        \cup { [n \in g.nodes |-> IF n = b THEN "nonfinite" ELSE "finite"] : b \in g.nodes }

\* plt.savefig(output_path, format='png', dpi=300)
SavedImage == "new"

Makedirs ==
    /\ pc = "build"
    /\ \/ /\ dir' = MakeDirs(dir)
          /\ Completed("makedirs")
          /\ UNCHANGED log
       \/ /\ dir = "absent"
          /\ VisualizeRaise("makedirs", "OSError")
          /\ UNCHANGED dir
    /\ UNCHANGED <<file, sentence, G, image, shown, pos, drawn>>

Layout ==
    /\ pc = "makedirs"
    /\ \/ /\ pos' \in Layouts(G)
          /\ Completed("layout")
          /\ UNCHANGED log
       \/ /\ VisualizeRaise("layout", "Exception")
          /\ UNCHANGED pos
    /\ UNCHANGED <<file, sentence, G, dir, image, shown, drawn>>

\* plt.figure(figsize=(12, 8)); nx.draw_networkx_nodes(G, pos, ...): every node of G
DrawNodes ==
    /\ pc = "layout"
    /\ \/ /\ drawn' = [drawn EXCEPT !.nodes = G.nodes]
          /\ Completed("nodes")
          /\ UNCHANGED log
       \/ /\ VisualizeRaise("nodes", "Exception")
          /\ UNCHANGED drawn
    /\ UNCHANGED <<file, sentence, G, dir, image, shown, pos>>

\* nx.draw_networkx_edges(G, pos, arrows=True, ...): every edge of G
DrawEdges ==
    /\ pc = "nodes"
    /\ \/ /\ drawn' = [drawn EXCEPT !.edges = DOMAIN G.edges]
          /\ Completed("edges")
          /\ UNCHANGED log
       \/ /\ VisualizeRaise("edges", "Exception")
          /\ UNCHANGED drawn
    /\ UNCHANGED <<file, sentence, G, dir, image, shown, pos>>

\* node_labels = nx.get_node_attributes(G, 'label');
\* nx.draw_networkx_labels(G, pos, labels=node_labels, ...)
DrawLabels ==
    /\ pc = "edges"
    /\ \/ /\ drawn' = [drawn EXCEPT !.labels = G.label]
          /\ Completed("labels")
          /\ UNCHANGED log
       \/ /\ VisualizeRaise("labels", "Exception")
          /\ UNCHANGED drawn
    /\ UNCHANGED <<file, sentence, G, dir, image, shown, pos>>

\* edge_labels = nx.get_edge_attributes(G, 'label');
\* nx.draw_networkx_edge_labels(G, pos, edge_labels=edge_labels, ...)
DrawEdgeLabels ==
    /\ pc = "labels"
    /\ \/ /\ drawn' = [drawn EXCEPT !.edge_labels = G.edges]
          /\ Completed("edge_labels")
          /\ UNCHANGED log
       \/ /\ VisualizeRaise("edge_labels", "Exception")
          /\ UNCHANGED drawn
    /\ UNCHANGED <<file, sentence, G, dir, image, shown, pos>>

\* plt.title(...); plt.axis('off'); plt.tight_layout(); plt.savefig(...);
\* logger.info(f"Saved graph to ...").  A failing savefig leaves the file as it
\* was or partly written
SaveFig ==
    /\ pc = "edge_labels"
    /\ \/ /\ image' = SavedImage
          /\ log' = Append(log, "INFO Saved graph")
          /\ Completed("save")
       \/ /\ image' \in {image, "partial"}
          /\ VisualizeRaise("save", "OSError")
    /\ UNCHANGED <<file, sentence, G, dir, shown, pos, drawn>>

\* plt.show(); plt.close(); visualize_graph and main return
Show ==
    /\ pc = "save"
    /\ \/ /\ shown' = TRUE
          /\ Completed("show")
          /\ UNCHANGED log
       \/ /\ VisualizeRaise("show", "Exception")
          /\ UNCHANGED shown
    /\ UNCHANGED <<file, sentence, G, dir, image, pos, drawn>>

visualize_graph ==
    \/ Makedirs
    \/ Layout
    \/ DrawNodes
    \/ DrawEdges
    \/ DrawLabels
    \/ DrawEdgeLabels
    \/ SaveFig
    \/ Show

\* main(): read, build, visualize
Next ==
    \/ read_conllu_file
    \/ BuildDependencyGraph
    \/ visualize_graph

Spec == Init /\ [][Next]_vars

---------------------------------------------------------------------------
(* build_dependency_graph on its own: called with any sentence. *)

InitBuild ==
    /\ pc = "load"
    /\ file = [exists |-> TRUE, sentences |-> << >>]
    /\ sentence \in Sentences
    /\ G = EmptyGraph
    /\ dir = "absent"
    /\ image = "absent"
    /\ shown = FALSE
    /\ log = << >>
    /\ exc = "none"
    /\ failedAt = "none"
    /\ pos = NoEntries
    /\ drawn = NoDrawing
    /\ trace = << "load" >>

SpecBuild == InitBuild /\ [][BuildDependencyGraph]_vars

---------------------------------------------------------------------------
(* Properties. *)

TokenIds(s) == { s[i].id : i \in 1..Len(s) }

DistinctIds(s) == \A i, j \in 1..Len(s) : i # j => s[i].id # s[j].id

\* every token carries the keys the loop reads
AllKeys(s) == \A i \in 1..Len(s) : s[i].head # Missing

\* build_dependency_graph was called and has returned or raised
BuildCalled == pc \notin {"main", "load"} /\ failedAt # "load"

\* build_dependency_graph returned a graph
BuildReturned == Len(trace) >= 2

\* the tokens of the sentence whose head is present and not 0
Governed(s) == { i \in 1..Len(s) : s[i].head # None /\ s[i].head # 0 }

\* C1: for a non-empty sentence with distinct ids the returned graph's nodes
\* are exactly the token ids, one per token, whatever the heads are
C1_NodesAreTheTokens ==
    (BuildCalled /\ sentence # << >> /\ DistinctIds(sentence) /\ AllKeys(sentence))
        => /\ BuildReturned
           /\ G.nodes = TokenIds(sentence)
           /\ Cardinality(G.nodes) = Len(sentence)

\* C2: with distinct ids the number of edges is the number of tokens whose
\* head is present and not 0
C2_EdgeCount ==
    (BuildCalled /\ DistinctIds(sentence) /\ AllKeys(sentence))
        => /\ BuildReturned
           /\ Cardinality(DOMAIN G.edges) = Cardinality(Governed(sentence))

\* a graph built from a root and its dependent: two tokens, one edge
C2_Witness ==
    /\ BuildReturned
    /\ DistinctIds(sentence)
    /\ Len(sentence) = 2
    /\ sentence[1].head = sentence[2].id
    /\ sentence[2].head = Root
    /\ Cardinality(DOMAIN G.edges) = 1

\* C3: every token with a head that is present and not 0 has the edge from
\* its head to its id, labelled with its relation; the edge from its id to its
\* head is in the graph only as the edge of a token whose head it is
C3_EdgeFromHeadToDependent ==
    BuildReturned =>
        \A i \in Governed(sentence) :
            LET t == sentence[i] IN
            /\ <<t.head, t.id>> \in DOMAIN G.edges
            /\ (\A j \in 1..Len(sentence) :
                    (sentence[j].id = t.id /\ sentence[j].head = t.head) => j <= i)
                => G.edges[<<t.head, t.id>>] = t.deprel
            /\ <<t.id, t.head>> \in DOMAIN G.edges
                => \E j \in Governed(sentence) :
                      sentence[j].id = t.head /\ sentence[j].head = t.id

\* a graph built from a token whose head is another id, nothing depending on it
C3_Witness ==
    /\ BuildReturned
    /\ \E i \in Governed(sentence) :
          /\ sentence[i].head # sentence[i].id
          /\ <<sentence[i].head, sentence[i].id>> \in DOMAIN G.edges
          /\ <<sentence[i].id, sentence[i].head>> \notin DOMAIN G.edges

\* C4: with distinct ids every node of the returned graph has a label, which
\* is form "/" tag of the token with that id
C4_EveryNodeLabelled ==
    (BuildCalled /\ DistinctIds(sentence) /\ AllKeys(sentence))
        => /\ BuildReturned
           /\ \A n \in G.nodes :
                /\ n \in DOMAIN G.label
                /\ \E i \in 1..Len(sentence) :
                      /\ sentence[i].id = n
                      /\ G.label[n] = sentence[i].form \o "/" \o sentence[i].upos

\* C5: build_dependency_graph on the empty sentence fails with InvalidInput
\* and returns no graph
C5_EmptyIsInvalidInput ==
    (BuildCalled /\ sentence = << >>) => (exc = "InvalidInput" /\ ~BuildReturned)

\* C6: with distinct ids every token whose head is 0 has a node and no edge
\* into it, and the build returns whatever the number of such tokens is
C6_RootsHaveNoIncomingEdge ==
    (BuildCalled /\ DistinctIds(sentence) /\ AllKeys(sentence))
        => /\ BuildReturned
           /\ \A i \in 1..Len(sentence) :
                sentence[i].head = 0
                    => /\ sentence[i].id \in G.nodes
                       /\ \A e \in DOMAIN G.edges : e[2] # sentence[i].id

\* a graph built from two roots, and one from a root with a dependent
C6_Witness ==
    /\ BuildReturned
    /\ DistinctIds(sentence)
    /\ Len(sentence) = 2
    /\ sentence[1].head = Root
    /\ sentence[2].head \in {Root, sentence[1].id}

\* visualize_graph was entered and returned
VisualizeReturned == pc = "show"

\* C7 (as the code has it): visualize_graph itself creates the output
\* directory when it is missing, writes the image file and shows the figure:
\* when it has returned the directory exists, the image is the saved one and the
\* figure was shown; the directory is created only by its makedirs step, the
\* image written only by its savefig step after all drawing, the figure shown
\* only by its last step
C7_VisualizeSavesAndShows ==
    /\ VisualizeReturned => (dir # "absent" /\ image = "new" /\ shown)
    /\ dir = "created" => Len(trace) >= 3
    /\ image \in {"new", "partial"} => (Len(trace) >= 9 \/ (Len(trace) = 8 /\ failedAt = "save"))
    /\ shown => Len(trace) = 10

\* a run in which visualize_graph created the directory, saved and showed
C7_Witness ==
    /\ VisualizeReturned
    /\ dir = "created"
    /\ image = "new"
    /\ shown

\* C7 (as claimed): rendering creates no directory, writes no file and shows nothing
C7_NoSideEffect ==
    /\ dir # "created"
    /\ image \notin {"new", "partial"}
    /\ ~shown

\* C8: an edge whose `from` endpoint is the id of no token is not drawn (the
\* drawing has no way of flagging an edge: all are drawn alike)
C8_DanglingEdgeNotDrawn ==
    \A e \in drawn.edges : e[1] \in TokenIds(sentence)

\* C9: once the layout holds a non-finite coordinate, nothing is drawn, no
\* image is written and the run ends with RenderError
C9_NonFiniteLayoutRaises ==
    (\E n \in DOMAIN pos : pos[n] = "nonfinite")
        => /\ drawn = NoDrawing
           /\ image \notin {"new", "partial"}
           /\ pc \in {"layout", "raised"}
           /\ pc = "raised" => exc = "RenderError"

IsPrefix(s, t) == Len(s) <= Len(t) /\ \A i \in 1..Len(s) : s[i] = t[i]

\* the last record of the log is an error record
ErrorLogged ==
    /\ log # << >>
    /\ log[Len(log)] \in {"ERROR Error reading CoNLL-U file", "ERROR Error visualizing graph"}

\* C10: the steps run in program order; the image is written only after every
\* earlier step completed; a step before the save that raises is logged, its
\* exception leaves main, no later step has run and the image is untouched
C10_OrderedAndLoggedFailure ==
    /\ IsPrefix(trace, StepOrder)
    /\ image \in {"new", "partial"} => Len(trace) >= 8
    /\ (pc = "raised" /\ failedAt \notin {"save", "show"})
        => /\ ErrorLogged
           /\ exc # "none"
           /\ failedAt = StepOrder[Len(trace) + 1]
           /\ image \in {"absent", "old"}

====
